---- MODULE Spec2Model ----
(***************************************************************************)
(* State-machine model of src/script.js: the product-catalog browser with  *)
(* a persisted selection set, a singleton detail overlay, a category and   *)
(* search filter, and a routine generator (remote or local heuristic).     *)
(*                                                                         *)
(* Text is modelled as a sequence of one-character strings so that trim,   *)
(* lower-casing and substring search are computed, not assumed.  A         *)
(* JavaScript value is a record [t, v]: t is its type ("null", "num",      *)
(* "str") and v its rendering as text, so String(1) and "1" share v and    *)
(* differ in t, exactly what === and Set.has distinguish.                  *)
(***************************************************************************)
EXTENDS Naturals, Sequences, FiniteSets

(***************************************************************************)
(* Bounds of the model.                                                    *)
(***************************************************************************)
\* catalog fetches that may be started while the cache is still null
MaxFetches == 2
\* document-level keydown listeners that may be registered at once
MaxListeners == 2
\* remote routine requests that may be in flight at once
MaxRemote == 1

(***************************************************************************)
(* Text helpers (String.prototype.trim / toLowerCase / includes / join).   *)
(***************************************************************************)
Upper ==
  <<"A", "B", "C", "D", "E", "F", "G", "H", "I", "J", "K", "L", "M",
    "N", "O", "P", "Q", "R", "S", "T", "U", "V", "W", "X", "Y", "Z">>
Lowered ==
  <<"a", "b", "c", "d", "e", "f", "g", "h", "i", "j", "k", "l", "m",
    "n", "o", "p", "q", "r", "s", "t", "u", "v", "w", "x", "y", "z">>

LowerChar(c) ==
  IF \E i \in 1..Len(Upper) : Upper[i] = c
    THEN Lowered[CHOOSE i \in 1..Len(Upper) : Upper[i] = c]
    ELSE c

ToLowerCase(s) == [i \in 1..Len(s) |-> LowerChar(s[i])]

IsSpace(c) == c = " "

Trim(s) ==
  IF \A i \in 1..Len(s) : IsSpace(s[i])
    THEN <<>>
    ELSE LET first == CHOOSE i \in 1..Len(s) :
                        /\ ~IsSpace(s[i])
                        /\ \A j \in 1..(i - 1) : IsSpace(s[j])
             last == CHOOSE i \in 1..Len(s) :
                        /\ ~IsSpace(s[i])
                        /\ \A j \in (i + 1)..Len(s) : IsSpace(s[j])
         IN SubSeq(s, first, last)

Includes(hay, needle) ==
  \E i \in 1..(Len(hay) + 1) :
    /\ i + Len(needle) - 1 <= Len(hay)
    /\ SubSeq(hay, i, i + Len(needle) - 1) = needle

\* [a, b, c, d].join(" ")
JoinFields(a, b, c, d) == a \o <<" ">> \o b \o <<" ">> \o c \o <<" ">> \o d

(***************************************************************************)
(* JavaScript values.                                                      *)
(***************************************************************************)
Null == [t |-> "null", v |-> <<>>]
Num(s) == [t |-> "num", v |-> s]
Str(s) == [t |-> "str", v |-> s]

\* String(x) and template interpolation `${x}` of a number or a string
ToStr(x) == Str(x.v)

\* a ?? b
Coalesce(a, b) == IF a.t = "null" THEN b ELSE a

\* the elements of a sequence, as a set
SetOf(s) == {s[i] : i \in 1..Len(s)}

\* Set.prototype.has
Has(set, x) == x \in SetOf(set)

\* Set.prototype.add: keeps insertion order, ignores a value already present
SetAdd(set, x) == IF Has(set, x) THEN set ELSE Append(set, x)

\* Set.prototype.delete
SetDelete(set, x) == SelectSeq(set, LAMBDA y : y # x)

(***************************************************************************)
(* The catalog served by products.json and the page's two filter controls. *)
(***************************************************************************)
Product(id, name, brand, category, description) ==
  [id |-> id, name |-> name, brand |-> brand, category |-> category,
   description |-> description]

\* what a successful fetch of products.json decodes to (data.products).
\* The file is data served next to the page; four contents are modelled.
\* One product with a numeric id, one with a string id, one without id:
StandardCatalog ==
  << Product(Num(<<"1">>), <<"A">>, <<"L">>,
             <<"C", "l", "e", "a", "n", "s", "e", "r">>, <<>>),
     Product(Str(<<"s", "2">>), <<"B">>, <<>>,
             <<"s", "u", "n", "s", "c", "r", "e", "e", "n">>, <<"d">>),
     Product(Null, <<"C">>, <<"M">>,
             <<"M", "a", "s", "k">>, <<"d">>) >>

\* categories outside the routine's priority list, two of them numbers
NumberedCatalog ==
  << Product(Str(<<"p">>), <<"D", "x">>, <<>>, <<"b">>, <<>>),
     Product(Str(<<"q">>), <<"E">>, <<>>, <<"1", "0">>, <<>>),
     Product(Str(<<"r">>), <<"F">>, <<>>, <<"7">>, <<>>) >>

\* categories outside the routine's priority list, none a number: two
\* products of one category (up to case and spacing) around another
UnlistedCatalog ==
  << Product(Str(<<"p">>), <<"J">>, <<>>, <<"b">>, <<>>),
     Product(Str(<<"q">>), <<"K">>, <<>>, <<"a">>, <<>>),
     Product(Str(<<"r">>), <<"N">>, <<>>, <<" ", "B">>, <<>>) >>

\* a category that is also the name of a property every object inherits
InheritedCatalog ==
  << Product(Str(<<"p">>), <<"G">>, <<>>,
             <<"C", "o", "n", "s", "t", "r", "u", "c", "t", "o", "r">>,
             <<"d">>),
     Product(Str(<<"q">>), <<"H">>, <<>>,
             <<"C", "l", "e", "a", "n", "s", "e", "r">>, <<>>) >>

Catalogs ==
  <<StandardCatalog, NumberedCatalog, InheritedCatalog, UnlistedCatalog>>

\* the options of <select id="categoryFilter">: value and visible text
CategoryOptions ==
  << [value |-> <<>>, text |-> <<"A", "l", "l">>],
     [value |-> <<"c", "l", "e", "a", "n", "s", "e", "r">>,
      text |-> <<"C">>],
     [value |-> <<"#", "v", ":", "m", "a", "s", "k">>, text |-> <<>>] >>

\* the values typed into the search input: nothing, a letter followed by
\* a space, a space alone
SearchValues == << <<>>, <<"D", " ">>, <<" ">> >>

\* the values that are empty or hold a visible character
WordSearches ==
  {i \in 1..Len(SearchValues) :
     SearchValues[i] = <<>> \/ Trim(SearchValues[i]) # <<>>}

(***************************************************************************)
(* The filter of applyFilters and the card rendering of displayProducts.   *)
(***************************************************************************)
Digits == {"0", "1", "2", "3", "4", "5", "6", "7", "8", "9"}

\* the regular expression class \w
IsWord(c) == c \in SetOf(Upper) \cup SetOf(Lowered) \cup Digits \cup {"_"}

\* /^#|:/.test(s)
LooksTemplated(s) ==
  \/ Len(s) > 0 /\ s[1] = "#"
  \/ \E i \in 1..Len(s) : s[i] = ":"

\* s.replace(/^#\w+:/, "")
StripPrefix(s) ==
  IF \E k \in 3..Len(s) :
       /\ s[1] = "#"
       /\ s[k] = ":"
       /\ \A j \in 2..(k - 1) : IsWord(s[j])
    THEN LET k == CHOOSE k \in 3..Len(s) :
                    /\ s[1] = "#"
                    /\ s[k] = ":"
                    /\ \A j \in 2..(k - 1) : IsWord(s[j])
         IN SubSeq(s, k + 1, Len(s))
    ELSE s

\* selectedCategory of applyFilters, for the selected option
SelectedCategory(opt) ==
  IF opt.value # <<>> /\ LooksTemplated(opt.value)
    THEN IF Trim(opt.text) # <<>>
           THEN Trim(opt.text)
           ELSE Trim(StripPrefix(opt.value))
    ELSE opt.value

\* the category test of applyFilters
CategoryMatches(p, selectedCategory) ==
  ToLowerCase(Trim(p.category)) = ToLowerCase(Trim(selectedCategory))

\* q of applyFilters
SearchQuery(value) == ToLowerCase(Trim(value))

\* the search test of applyFilters looking at the name alone
SearchMatchesNameOnly(p, q) == Includes(ToLowerCase(p.name), q)

\* the search test of applyFilters
SearchMatches(p, q) ==
  Includes(ToLowerCase(JoinFields(p.name, p.brand, p.description, p.category)),
           q)

\* the identifier displayProducts gives a product: product.id ?? product.name
ProductPid(p) == Coalesce(p.id, Str(p.name))

\* one card of displayProducts
Card(p, selected) ==
  [pid |-> ToStr(ProductPid(p)).v,
   selected |-> Has(selected, ProductPid(p)),
   highlighted |-> FALSE,
   expanded |-> FALSE]

Placeholder == [kind |-> "placeholder", cards |-> <<>>]
NoMatch == [kind |-> "nomatch", cards |-> <<>>]

\* productsContainer after displayProducts(products)
DisplayProducts(products, selected) ==
  [kind |-> "cards",
   cards |-> [i \in 1..Len(products) |-> Card(products[i], selected)]]

\* productsContainer after the part of applyFilters that follows its await
ApplyFiltersRender(products, opt, searchValue, selected) ==
  LET selectedCategory == SelectedCategory(opt)
      byCategory ==
        IF selectedCategory # <<>>
          THEN SelectSeq(products,
                         LAMBDA p : CategoryMatches(p, selectedCategory))
          ELSE products
      q == SearchQuery(searchValue)
      filtered ==
        IF q # <<>>
          THEN SelectSeq(byCategory, LAMBDA p : SearchMatches(p, q))
          ELSE byCategory
  IN IF selectedCategory = <<>> /\ q = <<>> THEN Placeholder
     ELSE IF filtered = <<>> THEN NoMatch
     ELSE DisplayProducts(filtered, selected)

\* productsContainer after the initial load's render
InitialRender(products, opt, selected) ==
  LET defaultCategory == opt.value
      filtered ==
        IF defaultCategory # <<>>
          THEN SelectSeq(products, LAMBDA p : p.category = defaultCategory)
          ELSE products
  IN DisplayProducts(filtered, selected)

(***************************************************************************)
(* Durable storage (localStorage key "selectedProductIds").  A stored      *)
(* value is missing, text that JSON.parse rejects, JSON that is no array,  *)
(* or a JSON array of literals; a literal is a JSON string or number.      *)
(***************************************************************************)
StoredMissing == [k |-> "missing", arr |-> <<>>]
StoredMalformed == [k |-> "malformed", arr |-> <<>>]
StoredObject == [k |-> "object", arr |-> <<>>]
StoredArray(lits) == [k |-> "array", arr |-> lits]

JsonString(s) == [t |-> "jstr", v |-> s]
JsonNumber(s) == [t |-> "jnum", v |-> s]

\* JSON.stringify of one string or number
JsonLiteral(x) == IF x.t = "num" THEN JsonNumber(x.v) ELSE JsonString(x.v)

\* JSON.parse of one literal
JsonValue(l) == IF l.t = "jnum" THEN Num(l.v) ELSE Str(l.v)

\* saveSelectedToStorage serialising the set without its last element
SaveAllButLast(stored, selected, writeOk) ==
  IF writeOk /\ selected # <<>>
    THEN StoredArray([i \in 1..(Len(selected) - 1) |->
                       JsonLiteral(selected[i])])
    ELSE stored

\* the value saveSelectedToStorage leaves under the key; setItem may throw
\* (quota, disabled storage), which the function catches
SaveSelectedToStorage(stored, selected, writeOk) ==
  IF writeOk
    THEN StoredArray([i \in 1..Len(selected) |-> JsonLiteral(selected[i])])
    ELSE stored

RECURSIVE AddAllAsString(_, _)
\* for (const id of arr) selectedProductIds.add(String(id))
AddAllAsString(set, lits) ==
  IF lits = <<>>
    THEN set
    ELSE AddAllAsString(SetAdd(set, ToStr(JsonValue(Head(lits)))), Tail(lits))

\* loadSelectedFromStorage leaving its loop after the first identifier
LoadFirstOnly(set, stored) ==
  IF stored.k = "array" /\ stored.arr # <<>>
    THEN SetAdd(set, ToStr(JsonValue(Head(stored.arr))))
    ELSE set

\* selectedProductIds after loadSelectedFromStorage, starting from `set`
LoadSelectedFromStorage(set, stored) ==
  IF stored.k = "array" THEN AddAllAsString(set, stored.arr) ELSE set

\* what the key may hold when the page is first opened
InitialStorages ==
  { StoredMissing, StoredMalformed, StoredObject,
    StoredArray(<<JsonNumber(<<"1">>), JsonString(<<"1">>)>>) }

(***************************************************************************)
(* getSelectedProductsData and buildLocalRoutine.                          *)
(***************************************************************************)
\* the indexes of the products whose identifier, as a string, is `id`
MatchingProducts(products, id) ==
  {i \in 1..Len(products) : ToStr(ProductPid(products[i])) = ToStr(id)}

MinOf(S) == CHOOSE x \in S : \A y \in S : x <= y

\* products.find(...) then the copy pushed to `selected`
GetSelectedProductsData(selected, products) ==
  LET hits == SelectSeq(selected,
                        LAMBDA id : MatchingProducts(products, id) # {})
  IN [k \in 1..Len(hits) |->
        LET p == products[MinOf(MatchingProducts(products, hits[k]))]
        IN Product(Coalesce(p.id, Null), p.name, p.brand, p.category,
                   p.description)]

\* const order = [...]
order ==
  << <<"c", "l", "e", "a", "n", "s", "e", "r">>,
     <<"e", "x", "f", "o", "l", "i", "a", "n", "t">>,
     <<"t", "o", "n", "e", "r">>,
     <<"e", "s", "s", "e", "n", "c", "e">>,
     <<"s", "e", "r", "u", "m">>,
     <<"e", "y", "e">>,
     <<"m", "o", "i", "s", "t", "u", "r", "i", "z", "e", "r">>,
     <<"o", "i", "l">>,
     <<"s", "u", "n", "s", "c", "r", "e", "e", "n">> >>

\* String(p.category || "other").trim().toLowerCase()
BucketKey(p) ==
  ToLowerCase(Trim(IF p.category = <<>>
                     THEN <<"o", "t", "h", "e", "r">>
                     ELSE p.category))

\* lower-case names that `buckets = {}` inherits from Object.prototype:
\* buckets[cat] is then truthy without being an array, and push throws
InheritedKeys ==
  { <<"c", "o", "n", "s", "t", "r", "u", "c", "t", "o", "r">>,
    <<"_", "_", "p", "r", "o", "t", "o", "_", "_">> }

RECURSIVE FirstSeen(_, _)
\* the keys of `buckets` in the order the grouping loop creates them
FirstSeen(products, seen) ==
  IF products = <<>>
    THEN seen
    ELSE FirstSeen(Tail(products), SetAdd(seen, BucketKey(Head(products))))

DigitValue(c) ==
  CASE c = "0" -> 0 [] c = "1" -> 1 [] c = "2" -> 2 [] c = "3" -> 3
    [] c = "4" -> 4 [] c = "5" -> 5 [] c = "6" -> 6 [] c = "7" -> 7
    [] c = "8" -> 8 [] OTHER -> 9

\* numeric order of two decimal numerals without leading zeros
IndexLess(a, b) ==
  \/ Len(a) < Len(b)
  \/ /\ Len(a) = Len(b)
     /\ \E i \in 1..Len(a) :
          /\ DigitValue(a[i]) < DigitValue(b[i])
          /\ \A j \in 1..(i - 1) : a[j] = b[j]

\* the largest array index, 2^32 - 2
MaxArrayIndex == <<"4", "2", "9", "4", "9", "6", "7", "2", "9", "4">>

\* a canonical array index ("0", "7", "12", up to 2^32 - 2): the keys that
\* Object.keys lists first, in ascending numeric order
IsIndexKey(s) ==
  /\ Len(s) > 0
  /\ \A i \in 1..Len(s) : s[i] \in Digits
  /\ Len(s) = 1 \/ s[1] # "0"
  /\ ~IndexLess(MaxArrayIndex, s)

RECURSIVE AscendingIndexes(_)
AscendingIndexes(S) ==
  IF S = {}
    THEN <<>>
    ELSE LET least == CHOOSE a \in S : \A b \in S \ {a} : IndexLess(a, b)
         IN <<least>> \o AscendingIndexes(S \ {least})

\* Object.keys(buckets) for keys created in the order `keys`
ObjectKeys(keys) ==
  AscendingIndexes({k \in SetOf(keys) : IsIndexKey(k)})
    \o SelectSeq(keys, LAMBDA k : ~IsIndexKey(k))

\* the steps of one bucket, walked from its last product to its first
BucketStepsReversed(products, cat, inOrder) ==
  LET list == SelectSeq(products, LAMBDA p : BucketKey(p) = cat)
  IN [i \in 1..Len(list) |->
        [cat |-> cat, name |-> list[Len(list) + 1 - i].name,
         priority |-> inOrder]]

\* the steps pushed for one bucket
BucketSteps(products, cat, inOrder) ==
  LET list == SelectSeq(products, LAMBDA p : BucketKey(p) = cat)
  IN [i \in 1..Len(list) |->
        [cat |-> cat, name |-> list[i].name, priority |-> inOrder]]

RECURSIVE StepsOf(_, _, _)
StepsOf(products, cats, inOrder) ==
  IF cats = <<>>
    THEN <<>>
    ELSE BucketSteps(products, Head(cats), inOrder)
           \o StepsOf(products, Tail(cats), inOrder)

\* buildLocalRoutine without its walk of `order`: every bucket is emitted by
\* the Object.keys loop
BuildWithoutPriority(products) ==
  LET steps == StepsOf(products, ObjectKeys(FirstSeen(products, <<>>)), FALSE)
  IN IF steps = <<>>
       THEN [k |-> "none", steps |-> <<>>]
       ELSE [k |-> "routine", steps |-> steps]

\* buildLocalRoutine(products): it throws, or returns the fixed message
\* ("none"), or the numbered steps followed by the precaution line
BuildLocalRoutine(products) ==
  LET keys == FirstSeen(products, <<>>)
      rest == SelectSeq(keys, LAMBDA k : k \notin SetOf(order))
      steps == StepsOf(products, order, TRUE)
                 \o StepsOf(products, ObjectKeys(rest), FALSE)
  IN IF \E i \in 1..Len(products) : BucketKey(products[i]) \in InheritedKeys
       THEN [k |-> "throws", steps |-> <<>>]
     ELSE IF steps = <<>>
       THEN [k |-> "none", steps |-> <<>>]
     ELSE [k |-> "routine", steps |-> steps]

(***************************************************************************)
(* State.                                                                  *)
(***************************************************************************)
VARIABLES
  selectedProductIds, \* the Set, as its elements in insertion order
  allProductsCache,   \* 0 for null, else the number of the fetch whose
                      \* decoded array it references
  storage,            \* localStorage["selectedProductIds"]
  categoryFilter,     \* index of the selected option of the category control
  searchInput,        \* index of the value of the search input
  productsContainer,  \* the grid: a placeholder, or the cards
  selectedList,       \* the summary list and the "Clear all" button
  overlays,           \* the elements with id product-modal-overlay that
                      \* are in the document, in document order
  escHandlers,        \* the keydown listeners registered on document, each
                      \* with the overlay and the card its closure holds
  pendingLoads,       \* loadProducts() calls suspended on their fetch
  fetches,            \* fetches of products.json started so far
  chatWindow,         \* what the result area shows
  pendingRemote,      \* routine requests in flight
  apiKey,             \* whether window.OPENAI_API_KEY is set
  lastWrite,          \* outcome of the session's last storage write
  storageOrigin,      \* who wrote the stored value: the page, or not
  served,             \* which of Catalogs products.json holds
  rejected,           \* whether a generateRoutine() call has thrown: its
                      \* promise rejected, with nothing awaiting it
  toggled             \* the run of card toggles since the last other change
                      \* of the set: identifier, length, set before the run

vars ==
  << selectedProductIds, allProductsCache, storage, categoryFilter,
     searchInput, productsContainer, selectedList, overlays, escHandlers,
     pendingLoads, fetches, chatWindow, pendingRemote, apiKey, served,
     rejected, lastWrite, storageOrigin, toggled >>

\* data.products of a successful fetch in this session
Catalog == Catalogs[served]

\* allProductsCache || []
CachedProducts == IF allProductsCache = 0 THEN <<>> ELSE Catalog

NoRun == [id |-> Null, n |-> 0, before |-> {}]
UntouchedList == [k |-> "untouched", items |-> <<>>, clearBtn |-> "absent"]

\* renderSelectedProductsList leaving the button as it is when the set is
\* empty
RenderSelectedKeepsButton(selected, products, list) ==
  IF selected = <<>>
    THEN [k |-> "placeholder", items |-> <<>>, clearBtn |-> list.clearBtn]
    ELSE [k |-> "items",
          items |-> [i \in 1..Len(selected) |->
                      LET hit == MatchingProducts(products, selected[i])
                      IN [id |-> selected[i].v,
                          name |-> IF hit = {}
                                     THEN selected[i].v
                                     ELSE products[MinOf(hit)].name]],
          clearBtn |-> "shown"]

\* selectedProductsList and the button after renderSelectedProductsList
RenderSelectedProductsList(selected, products, list) ==
  IF selected = <<>>
    THEN [k |-> "placeholder", items |-> <<>>,
          clearBtn |-> IF list.clearBtn = "absent" THEN "absent" ELSE "hidden"]
    ELSE [k |-> "items",
          items |-> [i \in 1..Len(selected) |->
                      LET hit == MatchingProducts(products, selected[i])
                      IN [id |-> selected[i].v,
                          name |-> IF hit = {}
                                     THEN selected[i].v
                                     ELSE products[MinOf(hit)].name]],
          clearBtn |-> "shown"]

\* the state init() leaves when it returns: the selection hydrated, the
\* grid showing the placeholder, the initial load suspended on its fetch
SessionStart(stored, origin, key, cat, search, file) ==
  /\ served = file
  /\ storage = stored
  /\ storageOrigin = origin
  /\ apiKey = key
  /\ categoryFilter = cat
  /\ searchInput = search
  /\ selectedProductIds = LoadSelectedFromStorage(<<>>, stored)
  /\ allProductsCache = 0
  /\ productsContainer = Placeholder
  /\ selectedList = UntouchedList
  /\ overlays = <<>>
  /\ escHandlers = <<>>
  /\ pendingLoads = {[id |-> 1, k |-> "init"]}
  /\ fetches = 1
  /\ chatWindow = [k |-> "initial", steps |-> <<>>]
  /\ pendingRemote = 0
  /\ lastWrite = "none"
  /\ toggled = NoRun
  /\ rejected = FALSE

Init ==
  \E stored \in InitialStorages, key \in BOOLEAN,
     cat \in 1..Len(CategoryOptions), search \in 1..Len(SearchValues),
     file \in 1..Len(Catalogs) :
    SessionStart(stored, "external", key, cat, search, file)

(***************************************************************************)
(* Helpers on the grid, the overlay and its listeners.                     *)
(***************************************************************************)
\* card.classList.remove("highlighted"); card 0 is a card no longer in the
\* document (the grid was redrawn since the reference was taken)
Unhighlight(grid, card) ==
  IF card \in 1..Len(grid.cards)
    THEN [grid EXCEPT !.cards[card].highlighted = FALSE]
    ELSE grid

\* clearHighlights(): only the first highlighted card is looked up
ClearHighlights(grid) ==
  LET lit == {i \in 1..Len(grid.cards) : grid.cards[i].highlighted}
  IN IF lit = {} THEN grid ELSE Unhighlight(grid, MinOf(lit))

\* the listener whose closure holds overlay `ov`
HandlerOf(ov) ==
  escHandlers[CHOOSE i \in 1..Len(escHandlers) : escHandlers[i].ov = ov]

\* closeModal() of overlay `ov`: the grid, the overlays, the listeners
GridAfterCloseModal(grid, ov) == Unhighlight(grid, HandlerOf(ov).card)
OverlaysAfterCloseModal(ov) == SelectSeq(overlays, LAMBDA o : o.ov # ov)
HandlersAfterCloseModal(ov) == SelectSeq(escHandlers, LAMBDA h : h.ov # ov)

\* closeExistingModal(): getElementById finds the first overlay, if any,
\* and calls the closeModal stored on it
GridAfterCloseExisting(grid) ==
  IF overlays = <<>>
    THEN grid
    ELSE GridAfterCloseModal(grid, Head(overlays).ov)
OverlaysAfterCloseExisting ==
  IF overlays = <<>>
    THEN overlays
    ELSE OverlaysAfterCloseModal(Head(overlays).ov)
HandlersAfterCloseExisting ==
  IF overlays = <<>>
    THEN escHandlers
    ELSE HandlersAfterCloseModal(Head(overlays).ov)

\* the listeners after the grid is redrawn: their cards left the document
Detached(handlers) ==
  [i \in 1..Len(handlers) |-> [handlers[i] EXCEPT !.card = 0]]

\* an overlay element not referenced by any registered listener
FreshOverlay ==
  MinOf({n \in 1..MaxListeners :
           \A i \in 1..Len(escHandlers) : escHandlers[i].ov # n})

(***************************************************************************)
(* loadProducts(): completion of a suspended call.                         *)
(***************************************************************************)
\* the initial load resumes: allProductsCache = data.products, then the
\* render of the default category and of the summary list
InitialLoadCompletes(f) ==
  /\ f \in pendingLoads
  /\ f.k = "init"
  /\ pendingLoads' = pendingLoads \ {f}
  /\ allProductsCache' = f.id
  /\ productsContainer' =
       InitialRender(Catalog, CategoryOptions[categoryFilter],
                     selectedProductIds)
  /\ selectedList' =
       RenderSelectedProductsList(selectedProductIds, Catalog, selectedList)
  /\ escHandlers' = Detached(escHandlers)
  /\ UNCHANGED << selectedProductIds, storage, categoryFilter, searchInput,
                  overlays, fetches, chatWindow, pendingRemote, apiKey,
                  served, rejected, lastWrite, storageOrigin, toggled >>

\* an applyFilters() call resumes: allProductsCache = data.products, then
\* the filter with the controls as they are now, and the render
FilterLoadCompletes(f) ==
  /\ f \in pendingLoads
  /\ f.k = "filter"
  /\ pendingLoads' = pendingLoads \ {f}
  /\ allProductsCache' = f.id
  /\ productsContainer' =
       ApplyFiltersRender(Catalog, CategoryOptions[categoryFilter],
                          SearchValues[searchInput], selectedProductIds)
  /\ escHandlers' = Detached(escHandlers)
  /\ UNCHANGED << selectedProductIds, storage, categoryFilter, searchInput,
                  selectedList, overlays, fetches, chatWindow, pendingRemote,
                  apiKey, served, rejected, lastWrite, storageOrigin,
                  toggled >>

\* the fetch rejects or its body is not JSON: loadProducts throws, and the
\* caller's continuation never runs
LoadFails(f) ==
  /\ f \in pendingLoads
  /\ pendingLoads' = pendingLoads \ {f}
  /\ UNCHANGED << selectedProductIds, allProductsCache, storage,
                  categoryFilter, searchInput, productsContainer,
                  selectedList, overlays, escHandlers, fetches, chatWindow,
                  pendingRemote, apiKey, served, rejected, lastWrite,
                  storageOrigin, toggled >>

(***************************************************************************)
(* The category "change" and search "input" handlers: applyFilters().      *)
(***************************************************************************)
\* applyFilters() up to its await, and past it when the cache is loaded
\* (the await of an already-cached value resumes before any other event)
ApplyFilters(cat, search) ==
  /\ categoryFilter' = cat
  /\ searchInput' = search
  /\ allProductsCache # 0 \/ fetches < MaxFetches
  /\ IF allProductsCache # 0
       THEN /\ productsContainer' =
                 ApplyFiltersRender(Catalog, CategoryOptions[cat],
                                    SearchValues[search], selectedProductIds)
            /\ escHandlers' = Detached(HandlersAfterCloseExisting)
            /\ UNCHANGED << pendingLoads, fetches >>
       ELSE /\ productsContainer' =
                 ClearHighlights(GridAfterCloseExisting(productsContainer))
            /\ escHandlers' = HandlersAfterCloseExisting
            /\ pendingLoads' =
                 pendingLoads \cup {[id |-> fetches + 1, k |-> "filter"]}
            /\ fetches' = fetches + 1
  /\ overlays' = OverlaysAfterCloseExisting
  /\ UNCHANGED << selectedProductIds, allProductsCache, storage, selectedList,
                  chatWindow, pendingRemote, apiKey, served, rejected,
                  lastWrite, storageOrigin, toggled >>

CategoryChange(cat) ==
  /\ cat \in 1..Len(CategoryOptions)
  /\ cat # categoryFilter
  /\ ApplyFilters(cat, searchInput)

SearchInput(search) ==
  /\ search \in 1..Len(SearchValues)
  /\ search # searchInput
  /\ ApplyFilters(categoryFilter, search)

(***************************************************************************)
(* The document click handler.                                             *)
(***************************************************************************)
\* the click handler without its delete branch
ToggleOnlyAdds(set, pid) == SetAdd(set, pid)

\* the if/else on selectedProductIds.has(pid)
Toggle(set, pid) ==
  IF Has(set, pid) THEN SetDelete(set, pid) ELSE SetAdd(set, pid)

\* products.find((p) => (p.id ?? p.name) === pid)
FindClicked(products, pid) ==
  {j \in 1..Len(products) : ProductPid(products[j]) = pid}

\* saveSelectedToStorage() called before the handler changes the set: it
\* writes the set as the handler found it
PersistBeforeMutation(selected, writeOk) ==
  /\ storage' = SaveSelectedToStorage(storage, selectedProductIds, writeOk)
  /\ lastWrite' = IF writeOk THEN "ok" ELSE "failed"
  /\ storageOrigin' = IF writeOk THEN "persisted" ELSE storageOrigin

\* saveSelectedToStorage() and what the model records about the write
Persist(selected, writeOk) ==
  /\ storage' = SaveSelectedToStorage(storage, selected, writeOk)
  /\ lastWrite' = IF writeOk THEN "ok" ELSE "failed"
  /\ storageOrigin' = IF writeOk THEN "persisted" ELSE storageOrigin

\* the run of toggles after a toggle of `pid`
RunAfterToggle(pid) ==
  IF toggled.id = pid /\ toggled.n = 1
    THEN [toggled EXCEPT !.n = 2]
    ELSE [id |-> pid, n |-> 1, before |-> SetOf(selectedProductIds)]

\* showProductModal without its `if (existing) existing.remove()`
ShowProductModalKeepsExisting(product, card, grid) ==
  /\ productsContainer' =
       [ClearHighlights(grid) EXCEPT !.cards[card].highlighted = TRUE]
  /\ overlays' = Append(overlays, [ov |-> FreshOverlay, product |-> product])
  /\ escHandlers' =
       Append(escHandlers, [ov |-> FreshOverlay, card |-> card])

\* showProductModal(product, card) on grid `grid`: the first overlay in the
\* document is removed as an element, the new one appended to the body
ShowProductModal(product, card, grid) ==
  /\ productsContainer' =
       [ClearHighlights(grid) EXCEPT !.cards[card].highlighted = TRUE]
  /\ overlays' =
       Append(IF overlays = <<>> THEN overlays ELSE Tail(overlays),
              [ov |-> FreshOverlay, product |-> product])
  /\ escHandlers' =
       Append(escHandlers, [ov |-> FreshOverlay, card |-> card])

\* a click on card `card`, outside its info and close buttons.  A card
\* exists only once the cache is loaded, so the handler's await resumes
\* before any other event and the handler is one step.
CardClick(card, writeOk) ==
  /\ allProductsCache # 0
  /\ card \in 1..Len(productsContainer.cards)
  /\ productsContainer.cards[card].pid # <<>>
  /\ LET pid == Str(productsContainer.cards[card].pid)
         selected == Toggle(selectedProductIds, pid)
         grid == [productsContainer EXCEPT
                    !.cards[card].selected = ~Has(selectedProductIds, pid)]
         found == FindClicked(Catalog, pid)
     IN /\ selectedProductIds' = selected
        /\ Persist(selected, writeOk)
        /\ selectedList' =
             RenderSelectedProductsList(selected, Catalog, selectedList)
        /\ toggled' = RunAfterToggle(pid)
        /\ IF found # {}
             THEN /\ Len(escHandlers) < MaxListeners
                  /\ ShowProductModal(MinOf(found), card, grid)
             ELSE /\ productsContainer' = grid
                  /\ UNCHANGED << overlays, escHandlers >>
  /\ UNCHANGED << allProductsCache, categoryFilter, searchInput, pendingLoads,
                  fetches, chatWindow, pendingRemote, apiKey, served,
                  rejected >>

\* the "Details" branch of the click handler without its `return`: the
\* click goes on to toggle the card's identifier in the set
InfoClickFallsThrough(card) ==
  /\ card \in 1..Len(productsContainer.cards)
  /\ productsContainer' =
       [productsContainer EXCEPT
          !.cards[card].expanded = ~productsContainer.cards[card].expanded]
  /\ selectedProductIds' =
       Toggle(selectedProductIds, Str(productsContainer.cards[card].pid))
  /\ UNCHANGED << allProductsCache, storage, categoryFilter, searchInput,
                  selectedList, overlays, escHandlers, pendingLoads, fetches,
                  chatWindow, pendingRemote, apiKey, served, rejected,
                  lastWrite, storageOrigin, toggled >>

\* a click on a card's "Details" button: expand or collapse its panel
InfoClick(card) ==
  /\ card \in 1..Len(productsContainer.cards)
  /\ productsContainer' =
       [productsContainer EXCEPT
          !.cards[card].expanded = ~productsContainer.cards[card].expanded]
  /\ UNCHANGED << selectedProductIds, allProductsCache, storage,
                  categoryFilter, searchInput, selectedList, overlays,
                  escHandlers, pendingLoads, fetches, chatWindow,
                  pendingRemote, apiKey, served, rejected, lastWrite,
                  storageOrigin, toggled >>

\* a click on the close button of an expanded panel
DescCloseClick(card) ==
  /\ card \in 1..Len(productsContainer.cards)
  /\ productsContainer.cards[card].expanded
  /\ productsContainer' =
       [productsContainer EXCEPT !.cards[card].expanded = FALSE]
  /\ UNCHANGED << selectedProductIds, allProductsCache, storage,
                  categoryFilter, searchInput, selectedList, overlays,
                  escHandlers, pendingLoads, fetches, chatWindow,
                  pendingRemote, apiKey, served, rejected, lastWrite,
                  storageOrigin, toggled >>

(***************************************************************************)
(* The summary list: remove one, clear all.                                *)
(***************************************************************************)
\* the first card the selector .product-card[data-product-id=id] finds
FirstCardWith(grid, id) ==
  LET hit == {i \in 1..Len(grid.cards) : grid.cards[i].pid = id}
  IN IF hit = {} THEN 0 ELSE MinOf(hit)

Deselect(grid, card) ==
  IF card \in 1..Len(grid.cards)
    THEN [grid EXCEPT !.cards[card].selected = FALSE]
    ELSE grid

\* a click on the "Remove" button of entry `item` of the summary list
RemoveClick(item, writeOk) ==
  /\ item \in 1..Len(selectedList.items)
  /\ selectedList.items[item].id # <<>>
  /\ LET id == selectedList.items[item].id
         selected == SetDelete(selectedProductIds, Str(id))
     IN /\ selectedProductIds' = selected
        /\ Persist(selected, writeOk)
        /\ selectedList' =
             RenderSelectedProductsList(selected, CachedProducts, selectedList)
        /\ productsContainer' =
             Deselect(productsContainer, FirstCardWith(productsContainer, id))
  /\ toggled' = NoRun
  /\ UNCHANGED << allProductsCache, categoryFilter, searchInput, overlays,
                  escHandlers, pendingLoads, fetches, chatWindow,
                  pendingRemote, apiKey, served, rejected >>

\* a click on "Clear all"
ClearAllClick(writeOk) ==
  /\ selectedList.clearBtn = "shown"
  /\ selectedProductIds' = <<>>
  /\ Persist(<<>>, writeOk)
  /\ selectedList' =
       RenderSelectedProductsList(<<>>, CachedProducts, selectedList)
  /\ productsContainer' =
       [productsContainer EXCEPT
          !.cards = [i \in 1..Len(productsContainer.cards) |->
                      [productsContainer.cards[i] EXCEPT !.selected = FALSE]]]
  /\ toggled' = NoRun
  /\ UNCHANGED << allProductsCache, categoryFilter, searchInput, overlays,
                  escHandlers, pendingLoads, fetches, chatWindow,
                  pendingRemote, apiKey, served, rejected >>

(***************************************************************************)
(* Closing the overlay.                                                    *)
(***************************************************************************)
\* the Close button of overlay `ov`, or a click on it outside its modal
CloseModalClick(ov) ==
  /\ \E i \in 1..Len(overlays) : overlays[i].ov = ov
  /\ productsContainer' = GridAfterCloseModal(productsContainer, ov)
  /\ overlays' = OverlaysAfterCloseModal(ov)
  /\ escHandlers' = HandlersAfterCloseModal(ov)
  /\ UNCHANGED << selectedProductIds, allProductsCache, storage,
                  categoryFilter, searchInput, selectedList, pendingLoads,
                  fetches, chatWindow, pendingRemote, apiKey, served,
                  rejected, lastWrite, storageOrigin, toggled >>

RECURSIVE UnhighlightAll(_, _)
UnhighlightAll(grid, handlers) ==
  IF handlers = <<>>
    THEN grid
    ELSE UnhighlightAll(Unhighlight(grid, Head(handlers).card), Tail(handlers))

\* the Escape key: every registered escHandler runs its own closeModal,
\* which removes its overlay, its card's highlight and the listener itself
EscapeKey ==
  /\ escHandlers # <<>>
  /\ productsContainer' = UnhighlightAll(productsContainer, escHandlers)
  /\ overlays' =
       SelectSeq(overlays,
                 LAMBDA o : \A i \in 1..Len(escHandlers) :
                              escHandlers[i].ov # o.ov)
  /\ escHandlers' = <<>>
  /\ UNCHANGED << selectedProductIds, allProductsCache, storage,
                  categoryFilter, searchInput, selectedList, pendingLoads,
                  fetches, chatWindow, pendingRemote, apiKey, served,
                  rejected, lastWrite, storageOrigin, toggled >>

(***************************************************************************)
(* The routine generator and the chat form.                                *)
(***************************************************************************)
Shows(kind) == [k |-> kind, steps |-> <<>>]

\* generateRoutine looking for the credential before it looks at the
\* selection
GenerateRoutineKeyFirst ==
  LET selected == GetSelectedProductsData(selectedProductIds, CachedProducts)
  IN /\ IF apiKey
          THEN /\ pendingRemote < MaxRemote
               /\ chatWindow' = Shows("generating")
               /\ pendingRemote' = pendingRemote + 1
          ELSE /\ chatWindow' =
                    IF selected = <<>>
                      THEN Shows("select")
                      ELSE BuildLocalRoutine(selected)
               /\ UNCHANGED pendingRemote
     /\ UNCHANGED << selectedProductIds, allProductsCache, storage,
                     categoryFilter, searchInput, productsContainer,
                     selectedList, overlays, escHandlers, pendingLoads,
                     fetches, apiKey, served, rejected, lastWrite,
                     storageOrigin, toggled >>

\* a click on "Generate Routine": generateRoutine() up to its first await
GenerateRoutine ==
  LET selected == GetSelectedProductsData(selectedProductIds, CachedProducts)
      localText == BuildLocalRoutine(selected)
  IN /\ IF selected = <<>>
          THEN /\ chatWindow' = Shows("select")
               /\ UNCHANGED << pendingRemote, rejected >>
        ELSE IF ~apiKey
          THEN /\ chatWindow' =
                    IF localText.k = "throws" THEN chatWindow ELSE localText
               /\ rejected' = (rejected \/ localText.k = "throws")
               /\ UNCHANGED pendingRemote
        ELSE /\ pendingRemote < MaxRemote
             /\ chatWindow' = Shows("generating")
             /\ pendingRemote' = pendingRemote + 1
             /\ UNCHANGED rejected
     /\ UNCHANGED << selectedProductIds, allProductsCache, storage,
                     categoryFilter, searchInput, productsContainer,
                     selectedList, overlays, escHandlers, pendingLoads,
                     fetches, apiKey, served, lastWrite, storageOrigin,
                     toggled >>

\* how a request to the remote endpoint can end: the fetch rejects; the
\* status is not a success and the body is read, or reading it fails; the
\* status is a success and the body is not JSON, or is JSON without a
\* text, or is JSON with a text
RemoteOutcomes ==
  {"rejected", "notOk", "notOkUnread", "undecodable", "noText", "text"}

\* generateRoutine with `await res.json()` outside its try block
RemoteMessageDecodeUncaught(outcome) ==
  CASE outcome = "rejected" -> Shows("requestFailed")
    [] outcome = "notOk" -> Shows("apiError")
    [] outcome = "notOkUnread" -> Shows("requestFailed")
    [] outcome = "undecodable" -> Shows("generating")
    [] outcome = "noText" -> Shows("noResponse")
    [] OTHER -> Shows("aiText")

\* what generateRoutine() writes to the result area for an outcome
RemoteMessage(outcome) ==
  CASE outcome = "rejected" -> Shows("requestFailed")
    [] outcome = "notOk" -> Shows("apiError")
    [] outcome = "notOkUnread" -> Shows("requestFailed")
    [] outcome = "undecodable" -> Shows("requestFailed")
    [] outcome = "noText" -> Shows("noResponse")
    [] OTHER -> Shows("aiText")

\* a suspended generateRoutine() resumes with the outcome of its request
RemoteCompletes(outcome) ==
  /\ outcome \in RemoteOutcomes
  /\ pendingRemote > 0
  /\ pendingRemote' = pendingRemote - 1
  /\ chatWindow' = RemoteMessage(outcome)
  /\ UNCHANGED << selectedProductIds, allProductsCache, storage,
                  categoryFilter, searchInput, productsContainer,
                  selectedList, overlays, escHandlers, pendingLoads, fetches,
                  apiKey, served, rejected, lastWrite, storageOrigin,
                  toggled >>

\* the chat form's submit handler
ChatSubmit ==
  /\ chatWindow' = Shows("connect")
  /\ UNCHANGED << selectedProductIds, allProductsCache, storage,
                  categoryFilter, searchInput, productsContainer,
                  selectedList, overlays, escHandlers, pendingLoads, fetches,
                  pendingRemote, apiKey, served, rejected, lastWrite,
                  storageOrigin, toggled >>

(***************************************************************************)
(* A new session: the page is loaded again and init() runs on what the     *)
(* previous session left in storage.                                       *)
(***************************************************************************)
PageReload(cat, search) ==
  /\ cat \in 1..Len(CategoryOptions)
  /\ search \in 1..Len(SearchValues)
  /\ categoryFilter' = cat
  /\ searchInput' = search
  /\ selectedProductIds' = LoadSelectedFromStorage(<<>>, storage)
  /\ allProductsCache' = 0
  /\ productsContainer' = Placeholder
  /\ selectedList' = UntouchedList
  /\ overlays' = <<>>
  /\ escHandlers' = <<>>
  /\ pendingLoads' = {[id |-> 1, k |-> "init"]}
  /\ fetches' = 1
  /\ chatWindow' = Shows("initial")
  /\ pendingRemote' = 0
  /\ lastWrite' = "none"
  /\ toggled' = NoRun
  /\ rejected' = FALSE
  /\ UNCHANGED << storage, storageOrigin, apiKey, served >>

Next ==
  \/ \E f \in pendingLoads : InitialLoadCompletes(f)
  \/ \E f \in pendingLoads : FilterLoadCompletes(f)
  \/ \E f \in pendingLoads : LoadFails(f)
  \/ \E cat \in 1..Len(CategoryOptions) : CategoryChange(cat)
  \/ \E search \in 1..Len(SearchValues) : SearchInput(search)
  \/ \E card \in 1..Len(Catalog), writeOk \in BOOLEAN :
       CardClick(card, writeOk)
  \/ \E card \in 1..Len(Catalog) : InfoClick(card)
  \/ \E card \in 1..Len(Catalog) : DescCloseClick(card)
  \/ \E item \in 1..Len(selectedList.items), writeOk \in BOOLEAN :
       RemoveClick(item, writeOk)
  \/ \E writeOk \in BOOLEAN : ClearAllClick(writeOk)
  \/ \E ov \in 1..MaxListeners : CloseModalClick(ov)
  \/ EscapeKey
  \/ GenerateRoutine
  \/ \E outcome \in RemoteOutcomes : RemoteCompletes(outcome)
  \/ ChatSubmit
  \/ \E cat \in 1..Len(CategoryOptions), search \in 1..Len(SearchValues) :
       PageReload(cat, search)

Spec == Init /\ [][Next]_vars

(***************************************************************************)
(* Scenarios.  The routine generator reads the selection and the cache and *)
(* writes only the result area; the browsing handlers never read the       *)
(* result area; a failed storage write changes nothing but the stored      *)
(* value.  Each scenario keeps every handler that reads or writes the      *)
(* state its properties are about.  Only generateRoutine reads the         *)
(* credential, so the scenarios without it start without a credential.     *)
(* These three scenarios are sessions on the standard catalog in which the  *)
(* search input never holds whitespace alone.                              *)
(***************************************************************************)
InitStandard == Init /\ served = 1 /\ searchInput \in WordSearches
InitNoCredential == InitStandard /\ ~apiKey

\* browsing: loads, filters, card clicks, the summary list, the overlay
NextBrowse ==
  \/ \E f \in pendingLoads : InitialLoadCompletes(f)
  \/ \E f \in pendingLoads : FilterLoadCompletes(f)
  \/ \E f \in pendingLoads : LoadFails(f)
  \/ \E cat \in 1..Len(CategoryOptions) : CategoryChange(cat)
  \/ \E search \in WordSearches : SearchInput(search)
  \/ \E card \in 1..Len(Catalog) : CardClick(card, TRUE)
  \/ \E item \in 1..Len(selectedList.items) : RemoveClick(item, TRUE)
  \/ ClearAllClick(TRUE)
  \/ \E ov \in 1..MaxListeners : CloseModalClick(ov)
  \/ EscapeKey

SpecBrowse == InitNoCredential /\ [][NextBrowse]_vars

\* persistence: the selection handlers with storage writes that may fail,
\* and sessions that follow one another on the same storage
NextPersist ==
  \/ \E f \in pendingLoads : InitialLoadCompletes(f)
  \/ \E f \in pendingLoads : LoadFails(f)
  \/ \E card \in 1..Len(Catalog), writeOk \in BOOLEAN :
       CardClick(card, writeOk)
  \/ \E item \in 1..Len(selectedList.items), writeOk \in BOOLEAN :
       RemoveClick(item, writeOk)
  \/ \E writeOk \in BOOLEAN : ClearAllClick(writeOk)
  \/ \E ov \in 1..MaxListeners : CloseModalClick(ov)
  \/ EscapeKey
  \/ \E cat \in 1..Len(CategoryOptions), search \in WordSearches :
       PageReload(cat, search)

SpecPersist == InitNoCredential /\ [][NextPersist]_vars

\* routine generation on a selection built by card clicks
NextRoutine ==
  \/ \E f \in pendingLoads : InitialLoadCompletes(f)
  \/ \E f \in pendingLoads : LoadFails(f)
  \/ \E card \in 1..Len(Catalog) : CardClick(card, TRUE)
  \/ \E item \in 1..Len(selectedList.items) : RemoveClick(item, TRUE)
  \/ ClearAllClick(TRUE)
  \/ \E ov \in 1..MaxListeners : CloseModalClick(ov)
  \/ EscapeKey
  \/ GenerateRoutine
  \/ \E outcome \in RemoteOutcomes : RemoteCompletes(outcome)
  \/ ChatSubmit

SpecRoutine == InitStandard /\ [][NextRoutine]_vars

\* local mode: sessions without a credential on each of the catalogs, with
\* nothing stored, the controls left as the page has them, a selection
\* built by card clicks
InitLocal ==
  /\ Init
  /\ ~apiKey
  /\ storage = StoredMissing
  /\ categoryFilter = 1
  /\ searchInput = 1

NextLocal ==
  \/ \E f \in pendingLoads : InitialLoadCompletes(f)
  \/ \E f \in pendingLoads : LoadFails(f)
  \/ \E card \in 1..Len(Catalog) : CardClick(card, TRUE)
  \/ EscapeKey
  \/ GenerateRoutine

SpecLocal == InitLocal /\ [][NextLocal]_vars

\* remote mode: sessions with a credential on the standard catalog, the
\* controls left as the page has them; every request is answered in the
\* end (the fetch settles, one way or another)
InitRemote ==
  /\ InitStandard
  /\ apiKey
  /\ categoryFilter = 1
  /\ searchInput = 1

NextRemote ==
  \/ \E f \in pendingLoads : InitialLoadCompletes(f)
  \/ \E f \in pendingLoads : LoadFails(f)
  \/ \E card \in 1..Len(Catalog) : CardClick(card, TRUE)
  \/ EscapeKey
  \/ GenerateRoutine
  \/ \E outcome \in RemoteOutcomes : RemoteCompletes(outcome)
  \/ ChatSubmit

SpecRemote ==
  /\ InitRemote
  /\ [][NextRemote]_vars
  /\ WF_vars(\E outcome \in RemoteOutcomes : RemoteCompletes(outcome))

\* filtering: sessions on each of the catalogs in which the two controls
\* take every value, and nothing else is touched
InitFilter == Init /\ ~apiKey /\ storage = StoredMissing

NextFilter ==
  \/ \E f \in pendingLoads : InitialLoadCompletes(f)
  \/ \E f \in pendingLoads : FilterLoadCompletes(f)
  \/ \E f \in pendingLoads : LoadFails(f)
  \/ \E cat \in 1..Len(CategoryOptions) : CategoryChange(cat)
  \/ \E search \in 1..Len(SearchValues) : SearchInput(search)

SpecFilter == InitFilter /\ [][NextFilter]_vars

\* everything that leaves the selection alone, around card toggles: a
\* session without a credential on the two-product catalog that hydrates
\* its selection from storage; the search input stays empty
InitFrame ==
  /\ Init
  /\ ~apiKey
  /\ served = 3
  /\ storage.k = "array"
  /\ categoryFilter = 1
  /\ searchInput = 1

NextFrame ==
  \/ \E f \in pendingLoads : InitialLoadCompletes(f)
  \/ \E f \in pendingLoads : FilterLoadCompletes(f)
  \/ \E f \in pendingLoads : LoadFails(f)
  \/ \E cat \in 1..Len(CategoryOptions) : CategoryChange(cat)
  \/ \E card \in 1..Len(Catalog) : CardClick(card, TRUE)
  \/ \E card \in 1..Len(Catalog) : InfoClick(card)
  \/ \E card \in 1..Len(Catalog) : DescCloseClick(card)
  \/ \E ov \in 1..MaxListeners : CloseModalClick(ov)
  \/ EscapeKey
  \/ GenerateRoutine

SpecFrame == InitFrame /\ [][NextFrame]_vars

(***************************************************************************)
(* Properties.                                                             *)
(***************************************************************************)

\* The fact CardClick relies on: cards are rendered only by code that runs
\* after loadProducts() has assigned the cache, so a click on a card always
\* finds the cache loaded.
CardsOnlyWhenLoaded ==
  productsContainer.cards # <<>> => allProductsCache # 0

\* C1: once allProductsCache is non-null it is never assigned again in the
\* session, so it is populated by exactly one successful fetch.
C1_CacheAssignedOnce ==
  [][allProductsCache # 0 => allProductsCache' = allProductsCache]_vars

\* C2: the number of keydown listeners registered on document equals the
\* number of overlays in the document.
C2_ListenersMatchOverlays == Len(escHandlers) = Len(overlays)

\* C3: at most one overlay is in the document, and a card click that opens
\* the overlay of a product leaves exactly one overlay, showing that
\* product, whether or not another overlay was open.
C3_SingleOverlay ==
  /\ [](Len(overlays) <= 1)
  /\ [][\A card \in 1..Len(productsContainer.cards) :
          LET found ==
                FindClicked(Catalog, Str(productsContainer.cards[card].pid))
          IN (CardClick(card, TRUE) /\ found # {})
               => /\ Len(overlays') = 1
                  /\ overlays'[1].product = MinOf(found)]_vars

\* C3 witness: an overlay was opened while another one was open (the
\* listener of the replaced overlay is still registered).
C3_OpenedOverAnother ==
  /\ Len(overlays) = 1
  /\ \E i \in 1..Len(escHandlers) : escHandlers[i].ov # overlays[1].ov

\* C4: while the category value and the search value are both empty the
\* grid never shows product cards.
C4_PlaceholderWhenNoTerms ==
  (CategoryOptions[categoryFilter].value = <<>>
     /\ SearchValues[searchInput] = <<>>)
    => productsContainer.kind # "cards"

\* C5: every card in the grid is marked selected exactly when its
\* identifier, as a string, is in the selection set.
C5_CardMarksMatchSelection ==
  \A i \in 1..Len(productsContainer.cards) :
    productsContainer.cards[i].selected
      <=> Has(selectedProductIds, Str(productsContainer.cards[i].pid))

\* C6: when the last storage write of the session
\* succeeded, the stored value is the JSON array of exactly the identifiers
\* of the selection set, each a JSON string, in the set's order.
C6_StorageMatchesSelection ==
  lastWrite = "ok"
    => storage =
         StoredArray([i \in 1..Len(selectedProductIds) |->
                        JsonString(selectedProductIds[i].v)])

\* C6 witness: a mutation was persisted and the set holds two identifiers.
C6_PersistedTwo == lastWrite = "ok" /\ Len(selectedProductIds) = 2

\* C7: after two card toggles of the same identifier in a row, the set has
\* the members it had before the first of them.
C7_ToggleTwiceRestores ==
  toggled.n = 2 => SetOf(selectedProductIds) = toggled.before

\* C7 witness: an identifier was toggled twice in a row in a set that holds
\* another identifier.
C7_ToggledTwice ==
  /\ toggled.n = 2
  /\ \E x \in SetOf(selectedProductIds) : x # toggled.id

\* C8: a session that starts on a value persisted by the previous session,
\* whose last write succeeded, restores a set with the same members, each
\* a string.
C8_PersistRestoreRoundTrip ==
  [][(lastWrite = "ok"
        /\ \E cat \in 1..Len(CategoryOptions),
              search \in 1..Len(SearchValues) : PageReload(cat, search))
       => /\ SetOf(selectedProductIds') = SetOf(selectedProductIds)
          /\ \A x \in SetOf(selectedProductIds') : x.t = "str"]_vars

\* C8 witness: a session hydrated from a value the page itself persisted,
\* holding two identifiers.
C8_RestoredPersisted ==
  /\ storageOrigin = "persisted"
  /\ lastWrite = "none"
  /\ Len(selectedProductIds) = 2

\* the place of a category in `order`, or one past its end
Priority(cat) ==
  IF \E i \in 1..Len(order) : order[i] = cat
    THEN CHOOSE i \in 1..Len(order) : order[i] = cat
    ELSE Len(order) + 1

\* the priority of the catalog product a routine step names
StepPriority(step) ==
  LET p == Catalog[CHOOSE i \in 1..Len(Catalog) : Catalog[i].name = step.name]
  IN Priority(ToLowerCase(Trim(p.category)))

\* C9: in a local routine a product whose normalized category comes
\* earlier in the priority order precedes every product whose category
\* comes later, and products of categories outside the order come last.
C9_RoutineFollowsPriority ==
  chatWindow.k = "routine"
    => \A i, j \in 1..Len(chatWindow.steps) :
         StepPriority(chatWindow.steps[i]) < StepPriority(chatWindow.steps[j])
           => i < j

\* C9 witness: a routine of three steps for a selection made in the
\* opposite order (unlisted category first, sunscreen, cleanser last).
C9_RoutineOfReversedSelection ==
  /\ chatWindow.k = "routine"
  /\ Len(chatWindow.steps) = 3
  /\ selectedProductIds = <<Str(<<"C">>), Str(<<"s", "2">>), Str(<<"1">>)>>

\* C10: a routine request made while the selection set is empty shows the
\* "select at least one product" message and starts no request, to the
\* remote endpoint or for the catalog.
C10_EmptySelectionNoRequest ==
  [][(selectedProductIds = <<>> /\ GenerateRoutine)
       => /\ chatWindow' = Shows("select")
          /\ pendingRemote' = pendingRemote
          /\ pendingLoads' = pendingLoads
          /\ fetches' = fetches]_vars

\* C10 witness: the message is shown for an empty selection although a
\* credential is configured.
C10_MessageWithCredential ==
  /\ chatWindow = Shows("select")
  /\ selectedProductIds = <<>>
  /\ apiKey

\* the names a sequence of products or of routine steps lists
NamesOf(s) == {s[i].name : i \in 1..Len(s)}

\* C11: without a credential, a routine request whose materialized
\* selection is not empty starts no request and leaves the result area
\* showing the local routine, one step for each materialized product.
C11_LocalRoutineShown ==
  [][LET selected ==
           GetSelectedProductsData(selectedProductIds, CachedProducts)
     IN (~apiKey /\ selected # <<>> /\ GenerateRoutine)
          => /\ pendingRemote' = pendingRemote
             /\ fetches' = fetches
             /\ pendingLoads' = pendingLoads
             /\ chatWindow'.k = "routine"
             /\ Len(chatWindow'.steps) = Len(selected)
             /\ NamesOf(chatWindow'.steps) = NamesOf(selected)]_vars

\* the kind of message the result area shows for an outcome of the request
MessageFor(outcome) ==
  CASE outcome \in {"rejected", "notOkUnread", "undecodable"}
         -> "requestFailed"
    [] outcome = "notOk" -> "apiError"
    [] outcome = "noText" -> "noResponse"
    [] outcome = "text" -> "aiText"

\* C12: in remote mode, whatever the outcome of the request, the call
\* that made it ends by writing the message of that outcome to the result
\* area, without throwing and without a second request; and the result
\* area never stays on "Generating" for ever.
C12_RemoteOutcomeShown ==
  /\ [][\A outcome \in RemoteOutcomes :
          RemoteCompletes(outcome)
            => /\ chatWindow' = Shows(MessageFor(outcome))
               /\ rejected' = rejected
               /\ pendingRemote' = pendingRemote - 1]_vars
  /\ (chatWindow.k = "generating") ~> (chatWindow.k # "generating")

\* C12 witness: a request made with a credential has failed, its error
\* message is shown and no request is in flight.
C12_FailureShown ==
  /\ apiKey
  /\ chatWindow = Shows("requestFailed")
  /\ pendingRemote = 0

\* the identifiers of the cards of a grid, and of a list of products
RenderedPids(grid) == [i \in 1..Len(grid.cards) |-> grid.cards[i].pid]
PidsOf(products) ==
  [i \in 1..Len(products) |-> ToStr(ProductPid(products[i])).v]

\* a step in which applyFilters() renders the grid
FilterRenders ==
  \/ /\ allProductsCache # 0
     /\ \/ \E cat \in 1..Len(CategoryOptions) : CategoryChange(cat)
        \/ \E search \in 1..Len(SearchValues) : SearchInput(search)
  \/ \E f \in pendingLoads : FilterLoadCompletes(f)

\* a step in which the initial load renders the grid
InitialRenders == \E f \in pendingLoads : InitialLoadCompletes(f)

\* the products whose category, trimmed and lower-cased, is the term
\* trimmed and lower-cased
OfCategory(products, term) ==
  SelectSeq(products,
            LAMBDA p : ToLowerCase(Trim(p.category)) = ToLowerCase(Trim(term)))

\* C13: whichever code renders the grid for a category term that is not
\* empty (and no search term), the cards are exactly the products whose
\* category equals the term up to letter case and surrounding whitespace:
\* in applyFilters, and in the initial load with a default category.
C13_CategoryFilterNormalizes ==
  [][/\ (FilterRenders
           /\ SelectedCategory(CategoryOptions[categoryFilter']) # <<>>
           /\ SearchQuery(SearchValues[searchInput']) = <<>>)
          => RenderedPids(productsContainer') =
               PidsOf(OfCategory(Catalog,
                        SelectedCategory(CategoryOptions[categoryFilter'])))
     /\ (InitialRenders /\ CategoryOptions[categoryFilter].value # <<>>)
          => RenderedPids(productsContainer') =
               PidsOf(OfCategory(Catalog,
                        CategoryOptions[categoryFilter].value))]_vars

\* the catalog after the category rule, for a category term
CategoryFiltered(products, term) ==
  IF term = <<>> THEN products ELSE OfCategory(products, term)

\* the products whose fields, joined by spaces and lower-cased, contain
\* `needle`
Containing(products, needle) ==
  SelectSeq(products,
            LAMBDA p :
              Includes(ToLowerCase(JoinFields(p.name, p.brand, p.description,
                                              p.category)),
                       needle))

\* C14 as stated: when the search term has at least one character, the
\* filter renders, in catalog order, the category-filtered products whose
\* joined lower-cased fields contain the lower-cased term.
C14_SearchKeepsSubstringMatches ==
  [][(FilterRenders /\ SearchValues[searchInput'] # <<>>)
       => RenderedPids(productsContainer') =
            PidsOf(Containing(
              CategoryFiltered(Catalog,
                SelectedCategory(CategoryOptions[categoryFilter'])),
              ToLowerCase(SearchValues[searchInput'])))]_vars

\* C14 amended: the term is trimmed before it is lower-cased and looked
\* for; a term with a visible character filters the category-filtered
\* products by it, in catalog order, and a term of whitespace alone filters
\* nothing.
C14_SearchTrimmed ==
  [][FilterRenders
       => LET byCategory ==
                CategoryFiltered(Catalog,
                  SelectedCategory(CategoryOptions[categoryFilter']))
              term == ToLowerCase(Trim(SearchValues[searchInput']))
          IN /\ term # <<>>
                  => RenderedPids(productsContainer') =
                       PidsOf(Containing(byCategory, term))
             /\ (term = <<>> /\ SearchValues[searchInput'] # <<>>
                  /\ SelectedCategory(CategoryOptions[categoryFilter']) # <<>>)
                  => RenderedPids(productsContainer') = PidsOf(byCategory)
             /\ (term = <<>>
                  /\ SelectedCategory(CategoryOptions[categoryFilter']) = <<>>)
                  => productsContainer' = Placeholder]_vars

\* C14 witness: the term "D " has filtered the standard catalog down to
\* its two products that have a "d" in a field.
C14_TwoMatchesShown ==
  /\ SearchValues[searchInput] = <<"D", " ">>
  /\ served = 1
  /\ RenderedPids(productsContainer) = << <<"s", "2">>, <<"C">> >>

\* the summary list shows the selection: one entry per identifier, in the
\* set's order, the placeholder for the empty set, and "Clear all" shown
\* exactly when the set is not empty
SummaryShowsSelection ==
  /\ [i \in 1..Len(selectedList.items) |-> selectedList.items[i].id]
       = [i \in 1..Len(selectedProductIds) |-> selectedProductIds[i].v]
  /\ selectedList.k = "placeholder" <=> selectedProductIds = <<>>
  /\ selectedList.clearBtn = "shown" <=> selectedProductIds # <<>>

\* C15: once the summary list has been rendered it shows the selection,
\* and it is rendered by the initial load when it completes and by every
\* card toggle, remove and clear.
C15_SummaryListMatchesSelection ==
  /\ [](selectedList.k # "untouched" => SummaryShowsSelection)
  /\ [][(\/ InitialRenders
         \/ \E card \in 1..Len(productsContainer.cards) : CardClick(card, TRUE)
         \/ \E item \in 1..Len(selectedList.items) : RemoveClick(item, TRUE)
         \/ ClearAllClick(TRUE))
          => /\ selectedList'.k # "untouched"
             /\ SummaryShowsSelection']_vars

\* C15 witness: after card toggles the list has two entries and the
\* button is shown.
C15_TwoListed ==
  /\ toggled.n > 0
  /\ Len(selectedList.items) = 2
  /\ selectedList.clearBtn = "shown"

\* the cards of the grid that carry the highlight
Highlighted ==
  {i \in 1..Len(productsContainer.cards) :
     productsContainer.cards[i].highlighted}

\* C16: at most one card is highlighted; a highlighted card is the card
\* an overlay in the document was opened from; and every overlay in the
\* document has its originating card in the grid, highlighted.
C16_HighlightMatchesOverlay ==
  /\ Cardinality(Highlighted) <= 1
  /\ \A i \in Highlighted :
       \E o \in 1..Len(overlays), h \in 1..Len(escHandlers) :
         /\ escHandlers[h].ov = overlays[o].ov
         /\ escHandlers[h].card = i
  /\ \A o \in 1..Len(overlays) :
       \E h \in 1..Len(escHandlers) :
         /\ escHandlers[h].ov = overlays[o].ov
         /\ escHandlers[h].card \in Highlighted

\* C17: a click on a card, once handled, has flipped the membership of
\* the card's identifier in the selection set and has left open a detail
\* overlay of the catalog product with that identifier, whatever the type
\* of the product's id.
C17_ClickTogglesAndOpens ==
  [][\A card \in 1..Len(productsContainer.cards) :
       CardClick(card, TRUE)
         => LET pid == Str(productsContainer.cards[card].pid)
                shown == Catalog[overlays'[Len(overlays')].product]
            IN /\ Has(selectedProductIds', pid)
                    <=> ~Has(selectedProductIds, pid)
               /\ overlays' # <<>>
               /\ ToStr(ProductPid(shown)) = pid]_vars

\* a step of one of the handlers that change the selection set, or the
\* start of a session
ChangesSelection ==
  \/ \E card \in 1..Len(productsContainer.cards), writeOk \in BOOLEAN :
       CardClick(card, writeOk)
  \/ \E item \in 1..Len(selectedList.items), writeOk \in BOOLEAN :
       RemoveClick(item, writeOk)
  \/ \E writeOk \in BOOLEAN : ClearAllClick(writeOk)
  \/ \E cat \in 1..Len(CategoryOptions), search \in 1..Len(SearchValues) :
       PageReload(cat, search)

\* C18: the selection set and the stored value change only in a card
\* toggle, a remove, a clear, or the start of a session: a filter
\* recompute, a grid redraw, a catalog load, closing the overlay,
\* expanding or collapsing a description and generating a routine leave
\* both as they are.
C18_SelectionFrame ==
  [][(selectedProductIds' # selectedProductIds \/ storage' # storage)
       => ChangesSelection]_vars

\* C18 witness: with a hydrated and toggled selection in the set and in
\* storage, a description is expanded, the category filter has been
\* changed and a routine has been generated.
C18_BusySession ==
  /\ Len(selectedProductIds) = 2
  /\ storage.k = "array"
  /\ lastWrite = "ok"
  /\ chatWindow.k = "routine"
  /\ categoryFilter # 1
  /\ \E i \in 1..Len(productsContainer.cards) :
       productsContainer.cards[i].expanded

\* C19: a routine request made while the selection set holds the
\* identifier of a product of the catalog never answers "select at least
\* one product": the selection is materialized and the routine built or
\* requested, also when the catalog fetch started by init is still in
\* flight.
C19_SelectionMaterialized ==
  [][(GenerateRoutine
        /\ \E i \in 1..Len(selectedProductIds) :
             MatchingProducts(Catalog, selectedProductIds[i]) # {})
       => chatWindow'.k \in {"routine", "generating"}]_vars

\* where a step's product stands in the materialized selection
PlaceIn(selected, name) ==
  MinOf({k \in 1..Len(selected) : selected[k].name = name})

\* where a category is first met in the materialized selection
FirstPlaceOf(selected, cat) ==
  MinOf({k \in 1..Len(selected) : BucketKey(selected[k]) = cat})

\* this call of generateRoutine() gets a routine from buildLocalRoutine
\* and writes it to the result area
ReturnsRoutine(selected) ==
  /\ ~apiKey
  /\ BuildLocalRoutine(selected).k = "routine"
  /\ chatWindow'.k = "routine"

\* C20: in a local routine, two products of one category stand in
\* selection order, and two products of different categories that are
\* both outside the priority list stand in the order in which their
\* categories are first met in the selection, whatever the category
\* strings are.
C20_UnlistedInEncounterOrder ==
  [][LET selected ==
           GetSelectedProductsData(selectedProductIds, CachedProducts)
     IN (GenerateRoutine /\ ReturnsRoutine(selected))
          => \A i, j \in 1..Len(chatWindow'.steps) :
               LET a == chatWindow'.steps[i]
                   b == chatWindow'.steps[j]
               IN /\ (a.cat = b.cat
                        /\ PlaceIn(selected, a.name)
                             < PlaceIn(selected, b.name))
                       => i < j
                  /\ (a.cat # b.cat
                        /\ a.cat \notin SetOf(order)
                        /\ b.cat \notin SetOf(order)
                        /\ FirstPlaceOf(selected, a.cat)
                             < FirstPlaceOf(selected, b.cat))
                       => i < j]_vars


\* C20 amended: two products of one category stand in selection order;
\* of two different categories outside the priority list, one that is an
\* array index (a decimal integer from 0 to 2^32 - 2 without leading
\* zeros) stands before one that is not, two array indexes stand in
\* ascending numeric order, and two others in the order in which they
\* are first met in the selection.
C20_IndexesThenEncounterOrder ==
  [][LET selected ==
           GetSelectedProductsData(selectedProductIds, CachedProducts)
     IN (GenerateRoutine /\ ReturnsRoutine(selected))
          => \A i, j \in 1..Len(chatWindow'.steps) :
               LET a == chatWindow'.steps[i]
                   b == chatWindow'.steps[j]
               IN /\ (a.cat = b.cat
                        /\ PlaceIn(selected, a.name)
                             < PlaceIn(selected, b.name))
                       => i < j
                  /\ (a.cat # b.cat
                        /\ a.cat \notin SetOf(order)
                        /\ b.cat \notin SetOf(order)
                        /\ \/ IsIndexKey(a.cat) /\ ~IsIndexKey(b.cat)
                           \/ /\ IsIndexKey(a.cat)
                              /\ IsIndexKey(b.cat)
                              /\ IndexLess(a.cat, b.cat)
                           \/ /\ ~IsIndexKey(a.cat)
                              /\ ~IsIndexKey(b.cat)
                              /\ FirstPlaceOf(selected, a.cat)
                                   < FirstPlaceOf(selected, b.cat))
                       => i < j]_vars

\* C20 witness: the routine of the numbered catalog selected in catalog
\* order: the product of category "7", the one of category "10", then the
\* one of category "b".
C20_NumberedRoutine ==
  /\ served = 2
  /\ chatWindow.k = "routine"
  /\ [i \in 1..Len(chatWindow.steps) |-> chatWindow.steps[i].name]
       = << <<"F">>, <<"E">>, <<"D", "x">> >>
  /\ [i \in 1..Len(selectedProductIds) |-> selectedProductIds[i].v]
       = << <<"p">>, <<"q">>, <<"r">> >>


\* C21: buildLocalRoutine of the materialized selection: for n >= 1
\* products it returns the text with n numbered steps (step i is numbered
\* i) followed by the precaution line, each product named by exactly one
\* step; for no products it returns the fixed message without steps.
C21_OneStepPerProduct ==
  LET selected == GetSelectedProductsData(selectedProductIds, CachedProducts)
      text == BuildLocalRoutine(selected)
  IN IF selected = <<>>
       THEN text.k = "none" /\ text.steps = <<>>
       ELSE /\ text.k = "routine"
            /\ Len(text.steps) = Len(selected)
            /\ \A k \in 1..Len(selected) :
                 Cardinality({i \in 1..Len(text.steps) :
                                text.steps[i].name = selected[k].name}) = 1


\* a set with the membership of `x` inverted
Flipped(S, x) == IF x \in S THEN S \ {x} ELSE S \cup {x}

\* C22: a card toggle leaves, in the one step it takes before any other
\* handler runs, the set with the clicked identifier's membership
\* inverted, the stored value holding exactly that set, and the summary
\* list showing it; and when the toggle before it was of a different
\* product, the set is the one from before the two toggles with both
\* memberships inverted.
C22_TogglesPersistedInOneStep ==
  [][\A card \in 1..Len(productsContainer.cards) :
       CardClick(card, TRUE)
         => LET pid == Str(productsContainer.cards[card].pid)
            IN /\ SetOf(selectedProductIds')
                    = Flipped(SetOf(selectedProductIds), pid)
               /\ storage' =
                    StoredArray([i \in 1..Len(selectedProductIds') |->
                                   JsonString(selectedProductIds'[i].v)])
               /\ SummaryShowsSelection'
               /\ (toggled.n = 1 /\ toggled.id # pid)
                    => SetOf(selectedProductIds')
                         = Flipped(Flipped(toggled.before, toggled.id),
                                   pid)]_vars

\* C22 witness: products "p" and "q" were toggled one after the other
\* into a hydrated set, and the set, the stored value and the summary
\* list hold both.
C22_BothTogglesPersisted ==
  /\ toggled = [id |-> Str(<<"q">>), n |-> 1,
                before |-> {Str(<<"1">>), Str(<<"p">>)}]
  /\ selectedProductIds = <<Str(<<"1">>), Str(<<"p">>), Str(<<"q">>)>>
  /\ storage = StoredArray(<<JsonString(<<"1">>), JsonString(<<"p">>),
                             JsonString(<<"q">>)>>)
  /\ Len(selectedList.items) = 3


\* grid `grid` shows the filter result for option `cat` of the category
\* control and value `search` of the search input: the placeholder when
\* both terms are empty, the "no match" message when no product passes,
\* else one card for each product that passes, in catalog order
ShowsResultFor(grid, cat, search) ==
  LET selectedCategory == SelectedCategory(CategoryOptions[cat])
      byCategory == CategoryFiltered(Catalog, selectedCategory)
      term == ToLowerCase(Trim(SearchValues[search]))
      result == IF term = <<>> THEN byCategory
                ELSE Containing(byCategory, term)
  IN IF selectedCategory = <<>> /\ term = <<>>
       THEN grid.kind = "placeholder"
     ELSE IF result = <<>>
       THEN grid.kind = "nomatch"
     ELSE grid.kind = "cards" /\ RenderedPids(grid) = PidsOf(result)

\* the grid shows the filter result for the controls as they are
GridFollowsControls ==
  ShowsResultFor(productsContainer, categoryFilter, searchInput)

\* no applyFilters() call is suspended on its catalog load
NoRecomputePending == \A f \in pendingLoads : f.k # "filter"

\* C23: a filter recompute that resumes after its catalog load redraws
\* the grid for the values the two controls have at that moment; and once
\* the catalog is cached, no recompute is pending and the grid shows the
\* result for the controls, it goes on showing it for as long as neither
\* control is changed.
C23_RedrawUsesLiveControls ==
  [][/\ (\E f \in pendingLoads : FilterLoadCompletes(f))
          => ShowsResultFor(productsContainer', categoryFilter', searchInput')
     /\ (/\ allProductsCache # 0
         /\ NoRecomputePending
         /\ categoryFilter' = categoryFilter
         /\ searchInput' = searchInput
         /\ GridFollowsControls)
          => ShowsResultFor(productsContainer', categoryFilter',
                            searchInput')]_vars


\* C24: when the initial load resumes after a filter recompute has
\* already loaded the catalog and drawn the grid, and no load is pending
\* after it, the grid it leaves still shows the filter result for the
\* values the two controls have.
C24_InitialRenderKeepsFilterResult ==
  [][(InitialRenders /\ allProductsCache # 0 /\ pendingLoads' = {})
       => ShowsResultFor(productsContainer', categoryFilter',
                         searchInput')]_vars

====
